---------------------------- MODULE Spec2Model ----------------------------
(***************************************************************************)
(* JamfScriptUploader (JamfUploaderProcessors/JamfScriptUploader.py): one  *)
(* run of main(), which authenticates, resolves the category and the       *)
(* script by name, decides skip / create / update and calls                *)
(* upload_script(), whose loop repeats the HTTP write until the response   *)
(* is accepted or the attempt counter passes its limit.                    *)
(* SeqSpec runs the processor several times in a row over the same server  *)
(* and environment; FairSpec is one run that is never left unfinished.     *)
(*                                                                         *)
(* Python values whose type matters (the replace flag) are records         *)
(* [t |-> type, v |-> printed value]; None for a name is the string NoneV; *)
(* a path is the sequence of its "/"-separated components; a sleep         *)
(* setting is the sequence of its decimal digits; a priority is the        *)
(* sequence of its characters.                                             *)
(***************************************************************************)
EXTENDS Integers, Sequences, FiniteSets, TLC

VARIABLES
    env,            \* the AutoPkg environment: inputs and outputs of main
    self,           \* instance fields set by main
    pc,             \* position of main / upload_script
    token,          \* local of main: the bearer token
    category_id,    \* local of main
    obj_id,         \* local of main: id of the existing script, 0 if none
    script_uploaded,\* local of main
    up,             \* locals of upload_script: script_data, url, count, r
    netlog,         \* every request sent to the server, in order
    sleeps,         \* every sleep() performed, in order
    output,         \* what the run reported: fatal error and surfaced status
    scripts,        \* the server: the script objects it stores
    hist            \* history: number of the run; server, summary and given name at
                    \* its start; names for which an earlier run ended having created
                    \* the script; writes of the run the server applied (0, 1, 2 for more)

vars == <<env, self, pc, token, category_id, obj_id, script_uploaded, up,
          netlog, sleeps, output, scripts, hist>>

-----------------------------------------------------------------------------
(* Bounds of the model *)

\* the server stores at most this many script objects
MaxObjects == 3

\* ids the server has already handed out before the run: 1..MaxOldId
MaxOldId == 2

\* the processor is run at most this many times in a row
MaxRuns == 2

(* Program constants *)

\* "if count > 5" gives up
MaxCount == 5

\* "if int(self.sleep) > 30 ... else sleep(30)"
MinSleep == 30

-----------------------------------------------------------------------------
(* Python values *)

NoneV == "<None>"

PyNone == [t |-> "NoneType", v |-> "None"]
PyBool(b) == [t |-> "bool", v |-> IF b THEN "True" ELSE "False"]
PyStr(s) == [t |-> "str", v |-> s]
PyInt(s) == [t |-> "int", v |-> s]

\* truth value of a Python object
Truthy(x) ==
    CASE x.t = "NoneType" -> FALSE
      [] x.t = "bool"     -> x.v = "True"
      [] x.t = "str"      -> x.v # ""
      [] x.t = "int"      -> x.v # "0"

\* truth value of a name that is None or a string
TruthyStr(s) == s # NoneV /\ s # ""

\* int(s) for a string of decimal digits
RECURSIVE ParseInt(_)
ParseInt(ds) ==
    IF ds = <<>> THEN 0
    ELSE 10 * ParseInt(SubSeq(ds, 1, Len(ds) - 1)) + ds[Len(ds)]

\* the first component of the path instead of the last
Basename_First(path) == path[1]

\* os.path.basename
Basename(path) == path[Len(path)]

\* '"/" in path'
HasSlash(path) == Len(path) > 1

-----------------------------------------------------------------------------
(* The world around the processor *)

JSS_URL == "https://jss"

\* files on disk
FilesOnDisk == {<<"recipes", "a.sh">>}

\* os.path.exists taken to hold without looking
PathExists_Always(path) == TRUE

\* os.path.exists
PathExists(path) == path \in FilesOnDisk

\* file.read()
FileContents(path) == "echo %NAME%"

\* JamfUploaderBase.substitute_assignable_keys
substitute_assignable_keys(text) == IF text = "echo %NAME%" THEN "echo app" ELSE text

\* JamfUploaderBase.get_path_to_file: the file in the recipe's directories, or nothing
get_path_to_file(filename) ==
    IF <<"recipes", filename>> \in FilesOnDisk THEN <<"recipes", filename>> ELSE <<>>

\* JamfUploaderBase.api_endpoints
api_endpoints(object_type) ==
    IF object_type = "script" THEN "api/v1/scripts" ELSE "api/v1/categories"

\* categories on the server: name -> id
ServerCategories == {[name |-> "Tools", id |-> "3"]}

\* JamfUploaderBase.get_uapi_obj_id_from_name for a category: its id, or nothing
CategoryLookup(name) ==
    IF \E c \in ServerCategories : c.name = name
    THEN (CHOOSE c \in ServerCategories : c.name = name).id
    ELSE NoneV

\* JamfUploaderBase.get_uapi_obj_id_from_name for a script: the ids the lookup
\* may return, 0 standing for nothing found
ScriptLookup(name) ==
    IF \E o \in scripts : o.name = name
    THEN {o.id : o \in {p \in scripts : p.name = name}}
    ELSE {0}

\* HTTP status codes of a write's response
SuccessCodes == {200, 201}
RetryCodes == {500, 503}

\* JamfUploaderBase.status_check
status_check(r) == IF r.status_code \in SuccessCodes THEN "break" ELSE "retry"

Max(S) == CHOOSE x \in S : \A y \in S : y <= x

\* the id the server gives a new object
NewId == IF scripts = {} THEN MaxOldId + 1
         ELSE Max({o.id : o \in scripts} \cup {MaxOldId}) + 1

\* the server's state after it has applied a write
Applied(request, id, data) ==
    IF request = "POST"
    THEN scripts \cup {[id |-> NewId, name |-> data.name, data |-> data]}
    ELSE {IF o.id = id THEN [id |-> id, name |-> data.name, data |-> data] ELSE o
          : o \in scripts}

\* the server can apply the write
CanApply(request) == request = "PUT" \/ Cardinality(scripts) < MaxObjects

-----------------------------------------------------------------------------
(* Inputs of one run *)

ScriptPaths == {<<"recipes", "a.sh">>, <<"recipes", "gone.sh">>, <<"a.sh">>, <<"gone.sh">>}

ScriptNames == {NoneV, "Custom"}

CategoryNames == {"", "Tools", "Nope"}

Priorities == {<<>>, <<"a", "f", "t", "e", "r">>, <<"B", "e", "f", "o", "r", "e">>}

ReplaceValues == {PyNone, PyBool(FALSE), PyBool(TRUE), PyStr(""), PyStr("False"),
                  PyStr("false"), PyStr("True"), PyInt("0")}

SleepValues == {<<0>>, <<5>>, <<3, 0>>, <<4, 5>>}

\* what the server stores for a script uploaded before the run
OldData(name) ==
    [name |-> name, priority |-> <<"A", "F", "T", "E", "R">>, categoryId |-> "-1",
     categoryName |-> "", scriptContents |-> "old"]

InitialServers ==
    {{}} \cup {{[id |-> i, name |-> n, data |-> OldData(n)]} :
               i \in 1..MaxOldId, n \in {"a.sh", "Custom"}}

-----------------------------------------------------------------------------
(* The decisions of the code *)

\* replace normalised without the comparison with "False"
NormalizeReplace_NoString(v) == IF ~Truthy(v) THEN PyBool(FALSE) ELSE v

\* lines 264-266: handle setting replace in overrides
NormalizeReplace(v) ==
    IF ~Truthy(v) \/ v = PyStr("False") THEN PyBool(FALSE) ELSE v

\* the category id without the fallback
CategoryIdOf_Raw(found) == found

\* lines 290-296: the category id used when the lookup returned `found`
CategoryIdOf(found) == IF ~TruthyStr(found) THEN "-1" ELSE found

\* main without the early return
ShouldReturn_Never(id, replace) == FALSE

\* the return taken on the wrong branch of "if self.replace"
ShouldReturn_Inverted(id, replace) == id # 0 /\ Truthy(replace)

\* lines 330-346: main returns without uploading
ShouldReturn(id, replace) == id # 0 /\ ~Truthy(replace)

\* str.upper for one character
UpperChar(c) ==
    CASE c = "a" -> "A" [] c = "b" -> "B" [] c = "e" -> "E" [] c = "f" -> "F"
      [] c = "o" -> "O" [] c = "r" -> "R" [] c = "t" -> "T" [] OTHER -> c

\* str.upper
Upper(s) == [i \in 1..Len(s) |-> UpperChar(s[i])]

\* the priority passed on as given
NormalizePriority_Raw(p) == p

\* lines 176-178: priority has to be in upper case
NormalizePriority(p) == IF p # <<>> THEN Upper(p) ELSE p

\* the URL with the id appended in both branches
Url_WithId(jamf_url, id) == <<jamf_url, api_endpoints("script"), ToString(id)>>

\* lines 215-218: the URL of the write
Url(jamf_url, id) ==
    IF id # 0 THEN <<jamf_url, api_endpoints("script"), ToString(id)>>
    ELSE <<jamf_url, api_endpoints("script")>>

\* the method with the test of obj_id the wrong way round
Request_Inverted(id) == IF id # 0 THEN "POST" ELSE "PUT"

\* the method without the test of obj_id
Request_Post(id) == "POST"

\* line 227: the method of the write
Request(id) == IF id # 0 THEN "PUT" ELSE "POST"

\* the loop without its limit
GiveUp_Never(count) == FALSE

\* the limit tested with >= instead of >
GiveUp_Early(count) == count >= MaxCount

\* line 232: the loop gives up
GiveUp(count) == count > MaxCount

\* the sleep without the floor
Backoff_NoFloor(sleep) == ParseInt(sleep)

\* lines 236-239: the seconds slept between two attempts
Backoff(sleep) == IF ParseInt(sleep) > MinSleep THEN ParseInt(sleep) ELSE MinSleep

\* lines 181-198: the object sent to the server
ScriptData(name, contents, priority, cat_id, cat_name) ==
    [name |-> name, priority |-> priority, categoryId |-> cat_id,
     categoryName |-> cat_name, scriptContents |-> contents]

-----------------------------------------------------------------------------
(* State *)

NoResponse == [status_code |-> 0]

Init ==
    /\ env \in [script_path : ScriptPaths, script_name : ScriptNames,
                script_category : CategoryNames, script_priority : Priorities,
                replace_script : ReplaceValues, sleep : SleepValues,
                script_uploaded : {PyNone}, summary : {<<>>}]
    /\ self = [script_path |-> <<>>, script_name |-> NoneV, script_category |-> NoneV,
               script_priority |-> <<>>, replace |-> PyNone, sleep |-> <<>>]
    /\ pc = "main"
    /\ token = NoneV
    /\ category_id = NoneV
    /\ obj_id = 0
    /\ script_uploaded = FALSE
    /\ up = [script_data |-> <<>>, url |-> <<>>, count |-> 0, r |-> NoResponse]
    /\ netlog = <<>>
    /\ sleeps = <<>>
    /\ output = [fatal |-> "", status_code |-> 0]
    /\ scripts \in InitialServers
    /\ hist = [run |-> 1, scripts0 |-> scripts, summary0 |-> <<>>, created |-> {},
               name0 |-> env.script_name, applied |-> 0]

\* the error reported without raising it
Raise_Logged(msg, code) ==
    /\ output' = [fatal |-> msg, status_code |-> code]
    /\ pc' = "report"

\* raise ProcessorError(msg)
Raise(msg, code) ==
    /\ output' = [fatal |-> msg, status_code |-> code]
    /\ pc' = "failed"

\* main without "clear any pre-existing summary result"
ReadEnv_KeepSummary ==
    /\ pc = "main"
    /\ self' = [script_path |-> env.script_path, script_name |-> env.script_name,
                script_category |-> env.script_category,
                script_priority |-> env.script_priority,
                replace |-> NormalizeReplace(env.replace_script),
                sleep |-> env.sleep]
    /\ script_uploaded' = FALSE
    /\ pc' = "auth"
    /\ UNCHANGED <<env, token, category_id, obj_id, up, netlog, sleeps, output, scripts,
                   hist>>

\* main, lines 244-271: read the inputs, clear the summary
ReadEnv ==
    /\ pc = "main"
    /\ UNCHANGED hist
    /\ self' = [script_path |-> env.script_path, script_name |-> env.script_name,
                script_category |-> env.script_category,
                script_priority |-> env.script_priority,
                replace |-> NormalizeReplace(env.replace_script),
                sleep |-> env.sleep]
    /\ env' = [env EXCEPT !.summary = <<>>]
    /\ script_uploaded' = FALSE
    /\ pc' = "auth"
    /\ UNCHANGED <<token, category_id, obj_id, up, netlog, sleeps, output, scripts>>

\* main, line 274: obtain the relevant credentials
Authenticate ==
    /\ pc = "auth"
    /\ UNCHANGED hist
    /\ netlog' = Append(netlog, [op |-> "AUTH", url |-> <<JSS_URL, "api/v1/auth/token">>])
    /\ \E ok \in BOOLEAN :
         IF ok
         THEN /\ token' = "token"
              /\ pc' = "category"
              /\ UNCHANGED output
         ELSE /\ Raise("ERROR: authentication failed", 0)
              /\ UNCHANGED token
    /\ UNCHANGED <<env, self, category_id, obj_id, script_uploaded, up, sleeps, scripts>>

\* main, lines 276-299: get the id for a category if supplied
ResolveCategory ==
    /\ pc = "category"
    /\ UNCHANGED hist
    /\ IF TruthyStr(self.script_category)
       THEN /\ netlog' = Append(netlog,
                   [op |-> "GET",
                    url |-> <<JSS_URL, api_endpoints("category"), self.script_category>>])
            /\ category_id' = CategoryIdOf(CategoryLookup(self.script_category))
            /\ UNCHANGED self
       ELSE /\ self' = [self EXCEPT !.script_category = ""]
            /\ category_id' = "-1"
            /\ UNCHANGED netlog
    /\ pc' = "path"
    /\ UNCHANGED <<env, token, obj_id, script_uploaded, up, sleeps, output, scripts>>

\* main, lines 301-311: handle files with no path, derive the name
ResolvePath ==
    /\ pc = "path"
    /\ UNCHANGED hist
    /\ LET found == IF HasSlash(self.script_path) THEN self.script_path
                    ELSE get_path_to_file(self.script_path[1])
       IN IF found = <<>>
          THEN /\ Raise("ERROR: Script file not found", 0)
               /\ UNCHANGED self
          ELSE /\ self' = [self EXCEPT
                        !.script_path = found,
                        !.script_name = IF TruthyStr(self.script_name)
                                        THEN self.script_name ELSE Basename(found)]
               /\ pc' = "lookup"
               /\ UNCHANGED output
    /\ UNCHANGED <<env, token, category_id, obj_id, script_uploaded, up, netlog, sleeps,
                   scripts>>

\* main, lines 313-328: check for existing script
LookupScript ==
    /\ pc = "lookup"
    /\ UNCHANGED hist
    /\ netlog' = Append(netlog,
            [op |-> "GET", url |-> <<JSS_URL, api_endpoints("script"), self.script_name>>])
    /\ \E id \in ScriptLookup(self.script_name) : obj_id' = id
    /\ pc' = "decide"
    /\ UNCHANGED <<env, self, token, category_id, script_uploaded, up, sleeps, output,
                   scripts>>

\* main, lines 330-346: replace, or return without uploading
Decide ==
    /\ pc = "decide"
    /\ UNCHANGED hist
    /\ pc' = IF ShouldReturn(obj_id, self.replace) THEN "done" ELSE "upload"
    /\ UNCHANGED <<env, self, token, category_id, obj_id, script_uploaded, up, netlog,
                   sleeps, output, scripts>>

\* upload_script, lines 166-220: read the file, build the object and the URL
UploadPrepare ==
    /\ pc = "upload"
    /\ UNCHANGED hist
    /\ IF PathExists(self.script_path)
       THEN /\ up' = [script_data |->
                         <<ScriptData(self.script_name,
                                      substitute_assignable_keys(FileContents(self.script_path)),
                                      NormalizePriority(self.script_priority),
                                      category_id, self.script_category)>>,
                      url |-> Url(JSS_URL, obj_id),
                      count |-> 0,
                      r |-> NoResponse]
            /\ pc' = "loop"
            /\ UNCHANGED output
       ELSE /\ Raise("Script does not exist!", 0)
            /\ UNCHANGED up
    /\ UNCHANGED <<env, self, token, category_id, obj_id, script_uploaded, netlog, sleeps,
                   scripts>>

\* upload_script, lines 221-235: one attempt: the write, the status check, the limit
Attempt ==
    /\ pc = "loop"
    /\ LET count == up.count + 1
           request == Request(obj_id)
       IN /\ netlog' = Append(netlog, [op |-> request, url |-> up.url])
          /\ \E status \in SuccessCodes \cup RetryCodes, applied \in BOOLEAN :
               /\ status \in SuccessCodes => applied
               /\ applied => CanApply(request)
               /\ scripts' = IF applied THEN Applied(request, obj_id, up.script_data[1])
                             ELSE scripts
               /\ hist' = IF applied /\ hist.applied < 2
                          THEN [hist EXCEPT !.applied = hist.applied + 1]
                          ELSE hist
               /\ up' = [up EXCEPT !.count = count, !.r = [status_code |-> status]]
               /\ IF status_check([status_code |-> status]) = "break"
                  THEN /\ pc' = "report"
                       /\ UNCHANGED output
                  ELSE IF GiveUp(count)
                  THEN Raise("ERROR: Script upload failed ", status)
                  ELSE /\ pc' = "sleep"
                       /\ UNCHANGED output
    /\ UNCHANGED <<env, self, token, category_id, obj_id, script_uploaded, sleeps>>

\* the next attempt made without waiting
Sleep_Skipped ==
    /\ pc = "sleep"
    /\ pc' = "loop"
    /\ UNCHANGED <<env, self, token, category_id, obj_id, script_uploaded, up, netlog,
                   sleeps, output, scripts, hist>>

\* upload_script, lines 236-239: wait before the next attempt
Sleep ==
    /\ pc = "sleep"
    /\ UNCHANGED hist
    /\ sleeps' = Append(sleeps, Backoff(self.sleep))
    /\ pc' = "loop"
    /\ UNCHANGED <<env, self, token, category_id, obj_id, script_uploaded, up, netlog,
                   output, scripts>>

\* main, lines 370-412: output the summary
Report ==
    /\ pc = "report"
    /\ UNCHANGED hist
    /\ script_uploaded' = TRUE
    /\ env' = [env EXCEPT
                 !.script_name = self.script_name,
                 !.script_uploaded = PyBool(TRUE),
                 !.summary = <<[script |-> self.script_name,
                                path |-> self.script_path,
                                category |-> self.script_category,
                                priority |-> self.script_priority]>>]
    /\ pc' = "done"
    /\ UNCHANGED <<self, token, category_id, obj_id, up, netlog, sleeps, output, scripts>>

Next ==
    \/ ReadEnv
    \/ Authenticate
    \/ ResolveCategory
    \/ ResolvePath
    \/ LookupScript
    \/ Decide
    \/ UploadPrepare
    \/ Attempt
    \/ Sleep
    \/ Report

Spec == Init /\ [][Next]_vars

\* the inputs of the runs checked for termination: the priority, which is only
\* copied into the object sent and the summary, is the default one
FairInit == Init /\ env.script_priority = <<"a", "f", "t", "e", "r">>

\* main runs to its end: a step that can be taken is taken
FairSpec == FairInit /\ [][Next]_vars /\ WF_vars(Next)

-----------------------------------------------------------------------------
(* Derived notions *)

IsWrite(m) == m.op \in {"POST", "PUT"}

\* the HTTP writes of the run, in order
Writes == SelectSeq(netlog, IsWrite)

NumWrites == Len(Writes)

\* the error raised when the attempts are used up (line 235)
UploadFailed == output.fatal = "ERROR: Script upload failed "

\* one of the two errors raised for a script file that is not there (lines 171, 307)
FileError == output.fatal \in {"Script does not exist!", "ERROR: Script file not found"}

\* the script file named by the input is not on disk
FileMissing ==
    IF HasSlash(env.script_path) THEN env.script_path \notin FilesOnDisk
    ELSE <<"recipes", env.script_path[1]>> \notin FilesOnDisk

\* the first attempt of the run was accepted
FirstAttemptAccepted == up.count = 1 /\ up.r.status_code \in SuccessCodes

\* the run ended without a write because the script exists
Skipped == pc = "done" /\ ~script_uploaded

\* the run ended having changed the stored object obj_id and created none
Updated ==
    /\ pc = "done" /\ script_uploaded
    /\ \A o \in scripts : o.id <= MaxOldId
    /\ \E o \in scripts : o.id = obj_id /\ o.data = up.script_data[1]

\* the run ended having created one object
Created ==
    /\ pc = "done" /\ script_uploaded
    /\ Cardinality({o \in scripts : o.id > MaxOldId /\ o.data = up.script_data[1]}) = 1

-----------------------------------------------------------------------------
(* Claims *)

\* C1 (as stated): one run issues at most 5 HTTP writes, and the upload error
\* is raised after exactly 5 writes.
C1_AtMostFiveWrites ==
    /\ NumWrites <= 5
    /\ UploadFailed => NumWrites = 5

\* C2: once the lookup has returned an existing id and the replace flag is
\* false, the run makes no HTTP write, raises no error and ends skipped.
C2_SkipLaw ==
    (obj_id # 0 /\ ~Truthy(self.replace)) =>
        /\ pc \in {"decide", "done"}
        /\ NumWrites = 0
        /\ output.fatal = ""
        /\ pc = "done" => Skipped

C2_Witness == Skipped /\ obj_id # 0 /\ ~Truthy(self.replace) /\ Len(netlog) >= 2

\* C3: with an existing id and a true replace flag every write is a PUT to the
\* script endpoint suffixed with that id; if the first attempt is accepted
\* there is exactly one PUT and the run ends updated.
C3_ReplaceLaw ==
    (obj_id # 0 /\ Truthy(self.replace)) =>
        /\ \A i \in DOMAIN Writes :
              /\ Writes[i].op = "PUT"
              /\ Writes[i].url = <<JSS_URL, "api/v1/scripts", ToString(obj_id)>>
        /\ ~Skipped
        /\ FirstAttemptAccepted =>
              /\ NumWrites = 1
              /\ pc \in {"report", "done"}
              /\ pc = "done" => Updated

C3_Witness ==
    /\ obj_id = 2 /\ Truthy(self.replace) /\ Updated /\ NumWrites = 1
    /\ Writes[1].url[3] = "2"

\* C4: when the lookup returns nothing the run never skips, whatever the
\* replace flag: every write is a POST to the script endpoint without an id;
\* if the first attempt is accepted there is exactly one POST and the run ends
\* created.
C4_CreateLaw ==
    (obj_id = 0 /\ pc \notin {"main", "auth", "category", "path", "lookup"}) =>
        /\ \A i \in DOMAIN Writes :
              /\ Writes[i].op = "POST"
              /\ Writes[i].url = <<JSS_URL, "api/v1/scripts">>
        /\ ~Skipped
        /\ FirstAttemptAccepted =>
              /\ NumWrites = 1
              /\ pc \in {"report", "done"}
              /\ pc = "done" => Created

C4_Witness == obj_id = 0 /\ Created /\ NumWrites = 1 /\ ~Truthy(self.replace)

\* C5 (as stated): an error for a missing script file is raised before any
\* network call.
C5_NoNetworkBeforeFileError == FileError => netlog = <<>>

\* C5 (amended): with the script file missing no HTTP write is ever made; the
\* file error comes after the authentication request, and a run that does not
\* fail ends skipped (existing script, replace false).
C5_NoWriteWhenFileMissing ==
    FileMissing =>
        /\ NumWrites = 0
        /\ pc \notin {"loop", "sleep", "report"}
        /\ FileError => (pc = "failed" /\ netlog # <<>> /\ netlog[1].op = "AUTH")
        /\ pc = "done" => (Skipped /\ obj_id # 0 /\ ~Truthy(self.replace))
        /\ (pc = "failed" /\ token # NoneV) => FileError

C5_Witness ==
    /\ FileMissing /\ output.fatal = "Script does not exist!"
    /\ Len(netlog) = 3 /\ obj_id = 0

\* C6: every sleep between attempts lasts max(configured sleep, 30) seconds:
\* 0, 5 and 30 give 30, 45 gives 45, and all sleeps of a run are equal.
C6_BackoffFloor ==
    LET n == ParseInt(env.sleep) IN
    \A i \in DOMAIN sleeps :
        /\ sleeps[i] >= 30 /\ sleeps[i] >= n /\ sleeps[i] \in {30, n}
        /\ env.sleep \in {<<0>>, <<5>>, <<3, 0>>} => sleeps[i] = 30
        /\ env.sleep = <<4, 5>> => sleeps[i] = 45
        /\ sleeps[i] = sleeps[1]

C6_Witness == Len(sleeps) >= 2 /\ env.sleep = <<4, 5>> /\ sleeps[2] = 45

\* C7: the upload error is raised exactly when the 6th attempt is still
\* rejected, never after an accepted attempt, and the status code reported is
\* that of the last response.
C7_ExhaustedRetries ==
    /\ UploadFailed <=> (up.count = 6 /\ status_check(up.r) = "retry")
    /\ UploadFailed =>
          /\ pc = "failed"
          /\ NumWrites = 6
          /\ output.status_code = up.r.status_code
    /\ (up.count < 6 /\ up.count > 0 /\ status_check(up.r) = "retry") => pc \in {"sleep", "loop"}
    /\ (up.count > 0 /\ status_check(up.r) = "break") => pc \in {"report", "done"}

C7_Witness == UploadFailed /\ up.count = 6 /\ output.status_code = 503

\* the replace values that count as false (line 265)
FalseLike == {PyNone, PyBool(FALSE), PyStr(""), PyInt("0"), PyStr("False")}

CategoryLookups ==
    SelectSeq(netlog, LAMBDA m : m.op = "GET" /\ m.url[2] = "api/v1/categories")

\* C9: a category that is supplied but not found gives categoryId "-1" and
\* the run goes on to the file and script lookup as with a found category; with
\* no category supplied categoryId is "-1" and no category lookup is issued.
C9_CategoryFallback ==
    /\ []((token # NoneV /\ pc \notin {"main", "auth", "category"}) =>
            /\ (env.script_category = "Nope") =>
                  /\ category_id = "-1"
                  /\ Len(CategoryLookups) = 1
                  /\ up.script_data # <<>> => up.script_data[1].categoryId = "-1"
            /\ (env.script_category = "Tools") =>
                  /\ category_id = "3"
                  /\ Len(CategoryLookups) = 1
            /\ (env.script_category = "") =>
                  /\ category_id = "-1"
                  /\ Len(CategoryLookups) = 0
                  /\ up.script_data # <<>> => up.script_data[1].categoryId = "-1")
    /\ [][pc = "category" => (pc' = "path" /\ output' = output)]_vars

C9_Witness ==
    /\ env.script_category = "Nope" /\ Created
    /\ up.script_data[1].categoryId = "-1"
    /\ \E o \in scripts : o.data.categoryId = "-1" /\ o.data.categoryName = "Nope"

\* C10 (as stated): every run that ends without a fatal error has set the
\* output script name to the name used and the "uploaded" output to true iff
\* it made an HTTP write.
C10_OutputsOnNonFatal ==
    pc = "done" =>
        /\ env.script_name = self.script_name
        /\ env.script_uploaded = PyBool(NumWrites > 0)

\* the run has ended
Terminal == pc \in {"done", "failed"}

\* the outcomes of a run that has ended
OutcomeSkipped == pc = "done" /\ ~script_uploaded /\ NumWrites = 0
OutcomeCreated ==
    /\ pc = "done" /\ script_uploaded /\ obj_id = 0
    /\ Writes[Len(Writes)].op = "POST" /\ up.r.status_code \in SuccessCodes
OutcomeUpdated ==
    /\ pc = "done" /\ script_uploaded /\ obj_id # 0
    /\ Writes[Len(Writes)].op = "PUT" /\ up.r.status_code \in SuccessCodes
OutcomeFailed == pc = "failed" /\ output.fatal # ""

-----------------------------------------------------------------------------
(* Several runs in a row: the environment and the server are kept, the
   processor instance is new *)

\* the inputs of the runs in a row
SeqPaths == {<<"recipes", "a.sh">>, <<"recipes", "gone.sh">>}
SeqReplace == {PyBool(FALSE), PyBool(TRUE)}

InitSeq ==
    /\ Init
    /\ env.script_path \in SeqPaths
    /\ env.replace_script \in SeqReplace
    /\ env.script_category = ""
    /\ env.script_priority = <<"a", "f", "t", "e", "r">>
    /\ env.sleep = <<0>>

\* the pipeline runs the processor again: new arguments over the kept
\* environment (a name that is not given stays as the last run left it)
NewRun ==
    /\ Terminal
    /\ hist.run < MaxRuns
    /\ \E path \in SeqPaths, name \in ScriptNames \cup {env.script_name},
          replace \in SeqReplace :
         /\ env' = [env EXCEPT !.script_path = path, !.script_name = name,
                               !.replace_script = replace]
         /\ hist' = [run |-> hist.run + 1, scripts0 |-> scripts,
                     summary0 |-> env.summary,
                     created |-> hist.created \cup
                                 (IF OutcomeCreated THEN {self.script_name} ELSE {}),
                     name0 |-> name, applied |-> 0]
    /\ self' = [script_path |-> <<>>, script_name |-> NoneV, script_category |-> NoneV,
                script_priority |-> <<>>, replace |-> PyNone, sleep |-> <<>>]
    /\ pc' = "main"
    /\ token' = NoneV
    /\ category_id' = NoneV
    /\ obj_id' = 0
    /\ script_uploaded' = FALSE
    /\ up' = [script_data |-> <<>>, url |-> <<>>, count |-> 0, r |-> NoResponse]
    /\ netlog' = <<>>
    /\ sleeps' = <<>>
    /\ output' = [fatal |-> "", status_code |-> 0]
    /\ UNCHANGED scripts

NextSeq ==
    \/ Next
    \/ NewRun

SeqSpec == InitSeq /\ [][NextSeq]_vars


\* C11: every run ends, in exactly one of skipped, created, updated, failed;
\* the loop makes no more attempts than its limit allows, and it is left
\* without success only by the upload error raised past the limit.
C11_Termination ==
    /\ <>Terminal
    /\ [](up.count <= MaxCount + 1)
    /\ [](Terminal =>
            Cardinality({o \in {"skipped", "created", "updated", "failed"} :
                           \/ o = "skipped" /\ OutcomeSkipped
                           \/ o = "created" /\ OutcomeCreated
                           \/ o = "updated" /\ OutcomeUpdated
                           \/ o = "failed" /\ OutcomeFailed}) = 1)
    /\ []((pc = "failed" /\ up.count > 0) => (UploadFailed /\ GiveUp(up.count)))
    /\ [][(pc = "loop" \/ pc = "sleep") => (pc' \in {"loop", "sleep", "report", "failed"})]_vars

C11_Witness == UploadFailed /\ up.count = MaxCount + 1 /\ Len(sleeps) = MaxCount

\* the script lookups of the run
ScriptLookups ==
    SelectSeq(netlog, LAMBDA m : m.op = "GET" /\ m.url[2] = "api/v1/scripts")

\* the server's objects of a name
Named(S, n) == {o \in S : o.name = n}

\* C12 (as stated): after runs that ended successfully the server never holds
\* more than one object of a name.
C12_AtMostOneObjectPerName ==
    pc = "done" => \A o1, o2 \in scripts : o1.name = o2.name => o1.id = o2.id

\* C12 (amended): in a run after one that ended created for the same name, the
\* lookup returns an id the server gave for that name; with replace false the
\* run skips without a write, with replace true every write is a PUT, and the
\* run adds no object of that name.
C12_IdempotentUpsert ==
    (hist.run > 1 /\ Len(ScriptLookups) > 0 /\ self.script_name \in hist.created) =>
        /\ obj_id \in {o.id : o \in Named(hist.scripts0, self.script_name)}
        /\ obj_id > MaxOldId
        /\ \A i \in DOMAIN Writes : Writes[i].op = "PUT"
        /\ ~Truthy(self.replace) => (NumWrites = 0 /\ pc \in {"decide", "done"})
        /\ Truthy(self.replace) => ~Skipped
        /\ Cardinality(Named(scripts, self.script_name)) =
              Cardinality(Named(hist.scripts0, self.script_name))

C12_Witness ==
    /\ hist.run = 2 /\ self.script_name \in hist.created
    /\ OutcomeUpdated /\ NumWrites >= 2

\* the server after one PUT of the run's object to obj_id, from the start of the run
PutOnce ==
    {IF o.id = obj_id
     THEN [id |-> o.id, name |-> up.script_data[1].name, data |-> up.script_data[1]]
     ELSE o : o \in hist.scripts0}

\* C13: in an update run the server, however many of the PUTs it applied, is
\* in the state one applied PUT gives: the same ids, the object obj_id holding
\* the fields sent, the others untouched.
C13_IdempotentUpdate ==
    (obj_id # 0 /\ up.script_data # <<>>) =>
        /\ hist.applied = 0 => scripts = hist.scripts0
        /\ hist.applied >= 1 => scripts = PutOnce
        /\ {o.id : o \in scripts} = {o.id : o \in hist.scripts0}

C13_Witness ==
    /\ obj_id # 0 /\ hist.applied = 2 /\ pc = "done"
    /\ scripts = PutOnce /\ scripts # hist.scripts0

\* C14: the priority sent is the given one in upper case ("after" gives
\* "AFTER", "Before" gives "BEFORE"); an empty priority is sent empty.
C14_PriorityNormalization ==
    up.script_data # <<>> =>
        LET sent == up.script_data[1].priority IN
        /\ env.script_priority = <<"a", "f", "t", "e", "r">> =>
              sent = <<"A", "F", "T", "E", "R">>
        /\ env.script_priority = <<"B", "e", "f", "o", "r", "e">> =>
              sent = <<"B", "E", "F", "O", "R", "E">>
        /\ env.script_priority = <<>> => sent = <<>>
        /\ Len(sent) = Len(env.script_priority)

C14_Witness ==
    /\ pc = "done" /\ env.script_priority = <<"a", "f", "t", "e", "r">>
    /\ \E o \in scripts : o.id > MaxOldId /\ o.data.priority = <<"A", "F", "T", "E", "R">>

\* C15: in a create run every attempt is the same POST to the bare endpoint and
\* the script lookup is not repeated, also after the server has applied an
\* earlier POST of the run; two objects of the same name from one run are reachable.
C15_NoRecheckBetweenAttempts ==
    (obj_id = 0 /\ up.count >= 1) =>
        /\ NumWrites = up.count
        /\ \A i \in DOMAIN Writes :
              Writes[i] = [op |-> "POST", url |-> <<JSS_URL, "api/v1/scripts">>]
        /\ Len(ScriptLookups) = 1
        /\ ScriptLookups[1] = netlog[Len(netlog) - NumWrites]
        /\ (hist.applied >= 1 /\ up.r.status_code \in RetryCodes /\ up.count <= MaxCount) =>
              pc \in {"sleep", "loop"}

C15_Witness ==
    /\ hist.run = 1 /\ obj_id = 0
    /\ Named(hist.scripts0, self.script_name) = {}
    /\ Cardinality(Named(scripts, self.script_name)) >= 2

\* C16: the writes of a run number as many as its attempts; one sleep lies
\* between two attempts, none after an accepted attempt and none between the
\* last rejected attempt and the error, so a run that ends has slept once less
\* than it has attempted.
C16_AttemptSleepAccounting ==
    /\ NumWrites = up.count
    /\ pc = "sleep" => Len(sleeps) = up.count - 1
    /\ pc = "loop" => Len(sleeps) = up.count
    /\ (up.count > 0 /\ pc \in {"report", "done", "failed"}) => Len(sleeps) = up.count - 1
    /\ up.count = 0 => sleeps = <<>>

C16_Witness == UploadFailed /\ NumWrites = 6 /\ Len(sleeps) = 5

\* position in netlog of the first request that satisfies Test, 0 if none
FirstIndex(Test(_)) ==
    IF \E i \in DOMAIN netlog : Test(netlog[i])
    THEN CHOOSE i \in DOMAIN netlog : Test(netlog[i]) /\ \A j \in 1..(i - 1) : ~Test(netlog[j])
    ELSE 0

IsScriptLookup(m) == m.op = "GET" /\ m.url[2] = "api/v1/scripts"
IsCategoryLookup(m) == m.op = "GET" /\ m.url[2] = "api/v1/categories"

\* the order of the requests and of the summary, as far as it holds of every run
StageOrder ==
    /\ netlog # <<>> => netlog[1].op = "AUTH"
    /\ Len(SelectSeq(netlog, LAMBDA m : m.op = "AUTH")) <= 1
    /\ Len(CategoryLookups) <= 1
    /\ (Len(CategoryLookups) = 1 /\ Len(ScriptLookups) = 1) =>
          FirstIndex(IsCategoryLookup) < FirstIndex(IsScriptLookup)
    /\ NumWrites > 0 =>
          (Len(ScriptLookups) = 1 /\ FirstIndex(IsScriptLookup) < FirstIndex(IsWrite))
    /\ (pc # "main" /\ env.summary # <<>>) =>
          (pc = "done" /\ up.count > 0 /\ up.r.status_code \in SuccessCodes)

\* C17 (as stated): authentication first, the script lookup exactly once in
\* every run and before any write, the category lookup at most once and before
\* the script lookup, the summary only after an accepted write.
C17_LookupExactlyOnce ==
    /\ StageOrder
    /\ Terminal => Len(ScriptLookups) = 1

\* C17 (amended): authentication first, the script lookup at most once in
\* every run, exactly once in every run that gets past authentication and finds
\* its file path, and before any write; the category lookup at most once and
\* before the script lookup; the summary only after an accepted write.
C17_StageOrdering ==
    /\ StageOrder
    /\ Len(ScriptLookups) <= 1
    /\ pc \in {"decide", "upload", "loop", "sleep", "report", "done"} =>
          Len(ScriptLookups) = 1
    /\ (pc = "failed" /\ Len(ScriptLookups) = 0) =>
          output.fatal \in {"ERROR: authentication failed", "ERROR: Script file not found"}

C17_Witness ==
    /\ pc = "done" /\ env.summary # <<>> /\ Len(netlog) = 5
    /\ netlog[2].url[2] = "api/v1/categories" /\ netlog[3].url[2] = "api/v1/scripts"
    /\ IsWrite(netlog[4]) /\ IsWrite(netlog[5])

\* the name a run is to use: the given one, else the file name of the path
ExpectedName ==
    IF hist.name0 # NoneV /\ hist.name0 # "" THEN hist.name0
    ELSE env.script_path[Len(env.script_path)]

\* C18: the name of the script lookup, the name in the object sent and the name
\* written to the output are the given name, or the file name of the script
\* path when none is given.
C18_NameDerivation ==
    /\ Len(ScriptLookups) > 0 => ScriptLookups[1].url[3] = ExpectedName
    /\ up.script_data # <<>> => up.script_data[1].name = ExpectedName
    /\ (pc = "done" /\ script_uploaded) =>
          (env.script_name = ExpectedName /\ env.summary[1].script = ExpectedName)

C18_Witness ==
    /\ hist.name0 = NoneV /\ env.script_path = <<"a.sh">>
    /\ pc = "done" /\ script_uploaded /\ env.script_name = "a.sh"
    /\ up.script_data[1].name = "a.sh"

\* C19: past the first lines of main the summary is there iff this run's write
\* was accepted and the report made; a summary an earlier run left is gone at
\* the end of every run, whatever its outcome, and the one there is this run's.
C19_SummaryFreshness ==
    /\ pc # "main" =>
          (env.summary # <<>> <=> (pc = "done" /\ script_uploaded))
    /\ Terminal =>
          (env.summary # <<>> <=> (up.count > 0 /\ up.r.status_code \in SuccessCodes))
    /\ (pc # "main" /\ env.summary # <<>>) =>
          (env.summary[1].script = self.script_name /\ env.summary[1].path = self.script_path)

C19_Witness ==
    /\ hist.run = 2 /\ hist.summary0 # <<>> /\ env.summary = <<>>
    /\ \/ Skipped
       \/ UploadFailed
       \/ FileError

\* C20 (as stated): every field of the summary equals the field of the object
\* sent; the reported priority is the upper-cased one that was sent.
C20_ReportMatchesSent ==
    env.summary # <<>> =>
        /\ env.summary[1].script = up.script_data[1].name
        /\ env.summary[1].category = up.script_data[1].categoryName
        /\ env.summary[1].priority = up.script_data[1].priority

=============================================================================
